---- MODULE Spec2Model ----
(***************************************************************************)
(* Model of the job scheduling and execution engine of                     *)
(* kelenetwork/telegram-checkin-bot.                                       *)
(*                                                                         *)
(* The repository holds five independent engine objects.   A behaviour of   *)
(* this module exercises one of them, named by `component`:                *)
(*   Scheduler       src/core/scheduler.py       cron jobs, tick loop      *)
(*   TaskManager     src/core/task_manager.py    queue and worker pool     *)
(*   AccountManager  src/core/account_manager.py batch checkin fan-out     *)
(*   BotManager      src/bot_manager.py, src/config_manager.py  task stats *)
(*   TelegramAutoBot src/telegram_bot.py         daily message tasks       *)
(* A sixth kind of behaviour, TriggerCalculator, evaluates the functions   *)
(* that compute a next fire time on one input.                             *)
(* The objects share no state in the source, so the reachable states of    *)
(* the whole are those of each object with the others at rest.             *)
(***************************************************************************)
EXTENDS Integers, Sequences, FiniteSets, TLC

\* ------------------------------------------------------------------ bounds

\* The clock runs over 0..MaxTime (one unit = one cron minute).
MaxTime == 3

\* ScheduledTask.max_errors as passed to Scheduler.add_task (a parameter,
\* default 5 at scheduler.py:33); the model registers jobs with this value.
MaxErrors == 2

\* Cap on ScheduledTask.run_count.
MaxRunCount == 2

\* The configured worker count, config['task_manager']['max_concurrent']
\* (default 5 at task_manager.py:69), is 1 or MaxConcurrent.
MaxConcurrent == 2

\* Number of Task objects TaskManager.add_task creates in a behaviour.
MaxTasks == 2

\* Number of task dicts BotManager creates in a behaviour.
MaxBotTasks == 2

\* Number of task executions BotManager starts or is told of in a behaviour.
MaxBotRuns == 2

\* Accounts of the batch checkins of a behaviour, in total.
MaxAccounts == 4

\* AccountManager.max_concurrent, the width of batch_checkin's semaphore.  The
\* source sets 5 (account_manager.py:33); the model runs a narrower one so
\* that a batch of MaxAccounts accounts fills it.
CheckinConcurrency == 2

\* Number of task dicts TelegramAutoBot.add_task creates in a behaviour.
MaxTabTasks == 3

\* The instants a next fire time is computed at lie in the days 0..MaxDay.
MaxDay == 1

\* An interval schedule has 1..MaxIntervalMinutes minutes.
MaxIntervalMinutes == 2

\* Task.max_retries (task_manager.py:55).
MaxRetries == 3

\* The longest sleep before a retry, in seconds (task_manager.py, line 301).
RetryDelayCap == 60

\* ------------------------------------------------------------- components


Components == {"Scheduler", "TaskManager", "AccountManager", "BotManager",
               "TelegramAutoBot", "TriggerCalculator"}

VARIABLES
    component,        \* which engine object this behaviour exercises
    now,              \* wall clock, datetime.now()
    lifecycle,        \* Scheduler.is_running, its loop tasks and the stop() in progress
    scheduled_tasks,  \* Scheduler.scheduled_tasks : task_id -> ScheduledTask
    async_tasks,      \* the event loop's _run_task tasks; `tracked` marks the
                      \* one Scheduler.running_tasks[task_id] refers to
    tm_running,       \* TaskManager.running
    task_objs,        \* the Task objects created so far, in creation order
    task_queue,       \* TaskManager.task_queue, as indexes into task_objs
    tm_running_tasks, \* TaskManager.running_tasks : task_id -> awaiting worker
    workers,          \* the number of _worker coroutines
    max_concurrent,   \* the configured max_concurrent (TaskManager.max_concurrent_tasks)
    bot_objs,         \* the task dicts BotManager created, in creation order
    bot_jobs,         \* the task dicts an APScheduler job holds as its argument
    bot_runs,         \* the _execute_task calls in flight
    batches,          \* the batch checkins (batch_checkin, _execute_checkin_task)
    tab_tasks,        \* the task dicts TelegramAutoBot created, in creation order
    calc,             \* one evaluation of a next-fire-time function
    last_call,        \* history: the Scheduler call that has just returned
    config_call       \* history: the ConfigManager call that has just returned

schedVars == <<scheduled_tasks, async_tasks>>
tmVars == <<tm_running, task_objs, task_queue, tm_running_tasks, workers>>
botVars == <<bot_objs, bot_jobs, bot_runs>>
vars == <<component, now, max_concurrent, lifecycle, scheduled_tasks, async_tasks,
          tm_running, task_objs, task_queue, tm_running_tasks, workers,
          bot_objs, bot_jobs, bot_runs, batches, tab_tasks, calc, last_call,
          config_call>>

\* ================================================================ Scheduler

\* Job ids: one default job (no user_id) and one user job (user_id set).
JobIds == {"database_cleanup", "user_checkin_1"}

\* ScheduledTask.user_id: set by add_user_checkin_task, None for default jobs.
HasUserId(j) == j # "database_cleanup"

\* The cron expression of a job, as its period in clock units ("*/p").
CronPeriod(j) == IF j = "database_cleanup" THEN 2 ELSE 1

\* croniter(cron, base).get_next(): the first matching instant strictly after base.
GetNextRunTime(j, base) == ((base \div CronPeriod(j)) + 1) * CronPeriod(j)

\* Scheduler._get_next_run_time(cron_expression, base_time) for the cron
\* expression given for job j: croniter's next match, or, when croniter
\* raises on the expression (cron_ok false), base_time plus one hour.
SchedulerGetNextRunTime(cron_ok, j, base_time) ==
    IF cron_ok THEN GetNextRunTime(j, base_time) ELSE base_time + 60

\* A free slot of scheduled_tasks (the id is not a key of the dict).
\* `last_run` tells whether the record's last_run is set (TRUE) or None.
NoTask == [present |-> FALSE, enabled |-> FALSE, cron_ok |-> FALSE, next_run |-> 0,
           last_run |-> FALSE, run_count |-> 0, error_count |-> 0]

\* ScheduledTask(...) as add_task builds it, with next_run computed from now;
\* cron_ok stands for its cron_expression: whether croniter accepts it.
NewScheduledTask(j, cron_ok) ==
    [present |-> TRUE, enabled |-> TRUE, cron_ok |-> cron_ok,
     next_run |-> SchedulerGetNextRunTime(cron_ok, j, now),
     last_run |-> FALSE, run_count |-> 0, error_count |-> 0]

\* Stages of one _run_task task: created by the tick, awaiting the callback
\* under wait_for, awaiting send_error_notification, finished.
Stages == {"created", "body", "notify", "done"}

\* Keys of Scheduler.running_tasks.
RunningIds == {u.id : u \in {v \in async_tasks : v.tracked}}

\* Units of job j that have not finished.
InFlight(j) == {u \in async_tasks : u.id = j /\ u.stage # "done"}

\* Units of job j whose callback is executing.
BodyRunning(j) == {u \in async_tasks : u.id = j /\ u.stage = "body"}

\* asyncio.Task.cancel() on running_tasks[j] followed by del running_tasks[j]:
\* CancelledError is a BaseException, so neither the callbacks' nor
\* _run_task's `except Exception` keeps the task alive; the bare except
\* around the notification swallows it and _run_task returns at once.
CancelAndForget(j) == {u \in async_tasks : ~(u.id = j /\ u.tracked)}

\* History of the Scheduler's interface, kept when `on` is set: the call of
\* add_task, remove_task, enable_task or disable_task that has just returned,
\* with its job id, whether the cron expression passed to add_task was a
\* valid one, the value returned, and scheduled_tasks and the asyncio tasks
\* as they were when the call was made.  It also records the call of
\* send_error_notification a run has just come back from (ret: it was sent).
\* Any other step of the Scheduler clears it.
NoCall(on) ==
    [on |-> on, op |-> "none", id |-> "database_cleanup", valid |-> FALSE,
     ret |-> FALSE, tasks |-> <<>>, units |-> {}]

Returned(op, j, valid, ret) ==
    IF last_call.on
      THEN [on |-> TRUE, op |-> op, id |-> j, valid |-> valid, ret |-> ret,
            tasks |-> scheduled_tasks, units |-> async_tasks]
      ELSE last_call

\* Variant of AddTaskReturns without the croniter check.
AddTaskReturns_NoValidation(valid) == TRUE

\* What add_task returns: False for a cron expression croniter rejects, True
\* otherwise.
AddTaskReturns(valid) == valid

\* Scheduler.add_task: a valid cron expression replaces (or creates) the record;
\* an invalid one returns False.  A task in flight keeps the old record object.
SchedAddTask(j, valid) ==
    /\ component = "Scheduler"
    /\ IF AddTaskReturns(valid)
         THEN /\ scheduled_tasks' = [scheduled_tasks EXCEPT ![j] = NewScheduledTask(j, valid)]
              /\ async_tasks' = {IF u.id = j THEN [u EXCEPT !.stale = TRUE] ELSE u
                                   : u \in async_tasks}
         ELSE UNCHANGED schedVars
    /\ last_call' = Returned("add_task", j, valid, AddTaskReturns(valid))
    /\ UNCHANGED <<component, lifecycle, config_call, calc, tab_tasks, now, max_concurrent, tmVars, botVars, batches>>

\* What remove_task, enable_task and disable_task return: True when the id
\* is a key of scheduled_tasks, False otherwise.
RemoveTaskReturns(j) == scheduled_tasks[j].present
EnableTaskReturns(j) == scheduled_tasks[j].present
DisableTaskReturns(j) == scheduled_tasks[j].present

\* Scheduler.remove_task
SchedRemoveTask(j) ==
    /\ component = "Scheduler"
    /\ IF RemoveTaskReturns(j)
         THEN /\ scheduled_tasks' = [scheduled_tasks EXCEPT ![j] = NoTask]
              /\ async_tasks' = CancelAndForget(j)
         ELSE UNCHANGED schedVars
    /\ last_call' = Returned("remove_task", j, TRUE, RemoveTaskReturns(j))
    /\ UNCHANGED <<component, lifecycle, config_call, calc, tab_tasks, now, max_concurrent, tmVars, botVars, batches>>

\* Variant of EnabledTask that leaves error_count as it is.
EnabledTask_KeepErrors(t) == [t EXCEPT !.enabled = TRUE]

\* enable_task, lines 301-302: the record is enabled and its error_count reset.
EnabledTask(t) == [t EXCEPT !.enabled = TRUE, !.error_count = 0]

\* Scheduler.enable_task
SchedEnableTask(j) ==
    /\ component = "Scheduler"
    /\ IF EnableTaskReturns(j)
         THEN scheduled_tasks' = [scheduled_tasks EXCEPT ![j] = EnabledTask(@)]
         ELSE UNCHANGED scheduled_tasks
    /\ last_call' = Returned("enable_task", j, TRUE, EnableTaskReturns(j))
    /\ UNCHANGED <<component, lifecycle, config_call, calc, tab_tasks, now, max_concurrent, async_tasks, tmVars, botVars, batches>>

\* Scheduler.disable_task
SchedDisableTask(j) ==
    /\ component = "Scheduler"
    /\ IF DisableTaskReturns(j)
         THEN /\ scheduled_tasks' = [scheduled_tasks EXCEPT ![j].enabled = FALSE]
              /\ async_tasks' = CancelAndForget(j)
         ELSE UNCHANGED schedVars
    /\ last_call' = Returned("disable_task", j, TRUE, DisableTaskReturns(j))
    /\ UNCHANGED <<component, lifecycle, config_call, calc, tab_tasks, now, max_concurrent, tmVars, botVars, batches>>

\* _check_and_run_tasks, line 126: the job is due and has no entry in running_tasks.
IsDue(j) ==
    /\ scheduled_tasks[j].present
    /\ scheduled_tasks[j].enabled
    /\ now >= scheduled_tasks[j].next_run
    /\ j \notin RunningIds

\* Variant of TooManyErrors with the comparison off by one (> for >=).
TooManyErrors_OffByOne(j) == scheduled_tasks[j].error_count > MaxErrors

\* _check_and_run_tasks, line 128: too many errors, the job is disabled instead of run.
TooManyErrors(j) == scheduled_tasks[j].error_count >= MaxErrors

\* Jobs the tick creates a _run_task task for.
Dispatched == {j \in JobIds : IsDue(j) /\ ~TooManyErrors(j)}

\* Variant of TickTask that leaves next_run of a dispatched job as it is.
TickTask_NoAdvance(j) ==
    IF ~IsDue(j) THEN scheduled_tasks[j]
    ELSE IF TooManyErrors(j) THEN [scheduled_tasks[j] EXCEPT !.enabled = FALSE]
    ELSE scheduled_tasks[j]

\* One pass of _check_and_run_tasks over one record.
TickTask(j) ==
    IF ~IsDue(j) THEN scheduled_tasks[j]
    ELSE IF TooManyErrors(j) THEN [scheduled_tasks[j] EXCEPT !.enabled = FALSE]
    ELSE [scheduled_tasks[j] EXCEPT
            !.next_run = SchedulerGetNextRunTime(scheduled_tasks[j].cron_ok, j, now)]

\* Variant of CleanedUp that leaves the finished tasks in running_tasks.
CleanedUp_KeepsDone == async_tasks

\* _check_and_run_tasks, lines 142-149: the tasks that are done() are deleted
\* from running_tasks.
CleanedUp == {u \in async_tasks : ~(u.tracked /\ u.stage = "done")}

\* Variant of TickReady in which the loop waits for the tasks it created.
TickReady_AwaitsBodies == \A u \in async_tasks : u.stage = "done"

\* _scheduler_loop, lines 98-101: what the loop waits for before its next
\* pass: asyncio.sleep(10) and nothing else.  The _run_task tasks are created
\* with asyncio.create_task and never awaited (lines 134-137).
TickReady == TRUE

\* _check_and_run_tasks: the loop over the records, then the removal of the
\* finished tasks from running_tasks.  The coroutine has no await: one step.
SchedTick ==
    /\ component = "Scheduler"
    /\ lifecycle.loops > 0
    /\ TickReady
    /\ scheduled_tasks' = [j \in JobIds |-> TickTask(j)]
    /\ async_tasks' =
          CleanedUp
          \cup {[id |-> j, stage |-> "created", stale |-> FALSE, tracked |-> TRUE]
                  : j \in Dispatched}
    /\ last_call' = NoCall(last_call.on)
    /\ UNCHANGED <<component, lifecycle, config_call, calc, tab_tasks, now, max_concurrent, tmVars, botVars, batches>>

\* Variant of StatsOnSuccess that leaves error_count as it is.
StatsOnSuccess_KeepErrors(t) ==
    [t EXCEPT !.last_run = TRUE, !.run_count = t.run_count + 1]

\* The record after a successful callback (lines 167-169): last_run, run_count, error_count.
StatsOnSuccess(t) ==
    [t EXCEPT !.last_run = TRUE, !.run_count = t.run_count + 1, !.error_count = 0]

\* Variant of StatsOnFailure that sets last_run as well, although no run is
\* counted in run_count.
StatsOnFailure_LastRunOnly(t) ==
    [t EXCEPT !.last_run = TRUE, !.error_count = t.error_count + 1]

\* The record after a timeout or an exception (lines 176, 181).
StatsOnFailure(t) ==
    [t EXCEPT !.error_count = t.error_count + 1]

\* A _run_task task writes to the record object it was created with: a record
\* replaced by add_task in the meantime is not the one it updates.
UpdateRecord(u, t) ==
    IF u.stale \/ ~scheduled_tasks[u.id].present
      THEN scheduled_tasks
      ELSE [scheduled_tasks EXCEPT ![u.id] = t]

\* _run_task starts: the callback is awaited under wait_for.
RunTaskStart(u) ==
    /\ component = "Scheduler"
    /\ u \in async_tasks /\ u.stage = "created"
    /\ async_tasks' = (async_tasks \ {u}) \cup {[u EXCEPT !.stage = "body"]}
    /\ last_call' = NoCall(last_call.on)
    /\ UNCHANGED <<component, lifecycle, config_call, calc, tab_tasks, now, max_concurrent, scheduled_tasks, tmVars, botVars, batches>>

\* _run_task, lines 161-172: the callback returned in time.
RunTaskSuccess(u) ==
    /\ component = "Scheduler"
    /\ u \in async_tasks /\ u.stage = "body"
    /\ u.stale \/ scheduled_tasks[u.id].run_count < MaxRunCount
    /\ scheduled_tasks' = UpdateRecord(u, StatsOnSuccess(scheduled_tasks[u.id]))
    /\ async_tasks' = (async_tasks \ {u}) \cup {[u EXCEPT !.stage = "done"]}
    /\ last_call' = NoCall(last_call.on)
    /\ UNCHANGED <<component, lifecycle, config_call, calc, tab_tasks, now, max_concurrent, tmVars, botVars, batches>>

\* _run_task, lines 174-176: where the run goes on after asyncio.TimeoutError:
\* the handler only counts the error, the run is over.
StageAfterTimeout(u) == "done"

\* _run_task, lines 178-192: where the run goes on after an exception of the
\* callback: a job with a user_id awaits send_error_notification.
StageAfterException(u) == IF HasUserId(u.id) THEN "notify" ELSE "done"


\* _run_task, lines 174-176: wait_for timed out.
RunTaskTimeout(u) ==
    /\ component = "Scheduler"
    /\ u \in async_tasks /\ u.stage = "body"
    /\ scheduled_tasks' = UpdateRecord(u, StatsOnFailure(scheduled_tasks[u.id]))
    /\ async_tasks' = (async_tasks \ {u}) \cup
          {[u EXCEPT !.stage = StageAfterTimeout(u)]}
    /\ last_call' = NoCall(last_call.on)
    /\ UNCHANGED <<component, lifecycle, config_call, calc, tab_tasks, now, max_concurrent, tmVars, botVars, batches>>

\* _run_task, lines 178-192: the callback raised; a job with a user_id then
\* awaits the error notification.
RunTaskException(u) ==
    /\ component = "Scheduler"
    /\ u \in async_tasks /\ u.stage = "body"
    /\ scheduled_tasks' = UpdateRecord(u, StatsOnFailure(scheduled_tasks[u.id]))
    /\ async_tasks' = (async_tasks \ {u}) \cup
          {[u EXCEPT !.stage = StageAfterException(u)]}
    /\ last_call' = NoCall(last_call.on)
    /\ UNCHANGED <<component, lifecycle, config_call, calc, tab_tasks, now, max_concurrent, tmVars, botVars, batches>>

\* Variant of AfterNotification in which a failed notification counts as
\* one more error of the job.
AfterNotification_FailureCounted(u, sent) ==
    IF sent THEN scheduled_tasks
    ELSE UpdateRecord(u, StatsOnFailure(scheduled_tasks[u.id]))

\* _run_task, lines 184-192: the records once send_error_notification has
\* returned (sent) or raised: `except: pass` drops whatever it raised, and
\* nothing follows in _run_task.
AfterNotification(u, sent) == scheduled_tasks

\* _run_task, lines 184-192: the notification was sent or failed (bare except).
RunTaskNotified(u, sent) ==
    /\ component = "Scheduler"
    /\ u \in async_tasks /\ u.stage = "notify"
    /\ scheduled_tasks' = AfterNotification(u, sent)
    /\ async_tasks' = (async_tasks \ {u}) \cup {[u EXCEPT !.stage = "done"]}
    /\ last_call' = Returned("send_error_notification", u.id, FALSE, sent)
    /\ UNCHANGED <<component, lifecycle, config_call, calc, tab_tasks, now, max_concurrent, tmVars, botVars, batches>>

\* ============================================================== TaskManager

\* Task ids: f"{task_type}_{user_id}_{int(datetime.now().timestamp())}".  The
\* model has one user and one task type, so an id stands for the second in
\* which add_task ran: two calls in the same second build the same id.
TaskIds == 1..MaxTasks

\* A Task object together with the _execute_task call working on it, if any:
\*   pc = "none"     no worker holds the task
\*   pc = "await"    a worker awaits the executor's coroutine (line 272)
\*   pc = "resume"   the coroutine has finished with `res`; the worker has not
\*                   yet run on (asyncio resumes it in a later step)
\*   pc = "backoff"  the worker sleeps before queueing the task again (line 301)
\* `error_message` tells whether the Task holds a message (TRUE) or None;
\* `delay` is the length of the sleep the worker is in (0: not sleeping).
\* `attempts` is a history field, not in the source: how often the object's
\* executor was started.
NewTask(id) ==
    [task_id |-> id, status |-> "pending", retry_count |-> 0,
     error_message |-> FALSE, delay |-> 0,
     pc |-> "none", res |-> "none", attempts |-> 0]

\* TaskManager.tasks[task_id]: the Task object stored last under that id (0: none).
TasksDict(id) ==
    LET S == {i \in DOMAIN task_objs : task_objs[i].task_id = id}
    IN IF S = {} THEN 0 ELSE CHOOSE i \in S : \A k \in S : k <= i

\* The objects TaskManager.tasks holds.
StoredObjs == {TasksDict(id) : id \in TaskIds} \ {0}

\* The objects a worker is busy with, and those whose executor is running.
HeldObjs == {i \in DOMAIN task_objs : task_objs[i].pc # "none"}
ExecutingObjs == {i \in DOMAIN task_objs : task_objs[i].pc = "await"}

\* Variant of StartWorkers without the `if self.running: return` guard.
StartWorkers_NoGuard == workers + max_concurrent

\* TaskManager.start, lines 84-93: nothing when already running, else
\* max_concurrent_tasks workers are created.
StartWorkers == IF tm_running THEN workers ELSE workers + max_concurrent

TMStart ==
    /\ component = "TaskManager"
    /\ workers' = StartWorkers
    /\ tm_running' = TRUE
    /\ UNCHANGED <<component, lifecycle, config_call, last_call, calc, tab_tasks, now, max_concurrent, schedVars, botVars, batches, task_objs, task_queue,
                   tm_running_tasks>>

\* The id add_task builds: that of the previous Task when both calls fall
\* into the same second, a new one otherwise.
NewTaskId(same_second) ==
    IF same_second /\ task_objs # <<>>
      THEN task_objs[Len(task_objs)].task_id
      ELSE Len(task_objs) + 1

\* TaskManager.add_task: the Task is stored under its id; it is queued only when
\* it has no scheduled_time in the future.
TMAddTask(future, same_second) ==
    /\ component = "TaskManager"
    /\ Len(task_objs) < MaxTasks
    /\ task_objs' = Append(task_objs, NewTask(NewTaskId(same_second)))
    /\ task_queue' = IF future THEN task_queue
                     ELSE Append(task_queue, Len(task_objs) + 1)
    /\ UNCHANGED <<component, lifecycle, config_call, last_call, calc, tab_tasks, now, max_concurrent, schedVars, botVars, batches, tm_running,
                   tm_running_tasks, workers>>

\* The object whose coroutine running_tasks[id] is, if that coroutine has not
\* finished (0: none).
PendingCoroutine(id) ==
    LET i == tm_running_tasks[id]
    IN IF i # 0 /\ task_objs[i].pc = "await" THEN i ELSE 0

\* TaskManager.cancel_task: cancels the coroutine registered under the id when
\* it is not done, and marks the stored Task cancelled.
CancelledObjs(id) ==
    [i \in DOMAIN task_objs |->
        LET t == IF i = PendingCoroutine(id)
                   THEN [task_objs[i] EXCEPT !.pc = "resume", !.res = "cancelled"]
                   ELSE task_objs[i]
        IN IF i = TasksDict(id) THEN [t EXCEPT !.status = "cancelled"] ELSE t]

TMCancelTask(id) ==
    /\ component = "TaskManager"
    /\ task_objs' = IF TasksDict(id) = 0 THEN task_objs ELSE CancelledObjs(id)
    /\ UNCHANGED <<component, lifecycle, config_call, last_call, calc, tab_tasks, now, max_concurrent, schedVars, botVars, batches, tm_running, task_queue,
                   tm_running_tasks, workers>>

\* Variant of Retryable without the test of retry_count against max_retries.
Retryable_NoLimit == {i \in StoredObjs : task_objs[i].status = "failed"}

\* The stored tasks retry_failed_tasks re-queues (lines 205-207).
Retryable == {i \in StoredObjs : task_objs[i].status = "failed"
                                  /\ task_objs[i].retry_count < MaxRetries}

RECURSIVE SetToSeq(_)
SetToSeq(S) ==
    IF S = {} THEN <<>>
    ELSE LET m == CHOOSE i \in S : \A k \in S : i <= k
         IN <<m>> \o SetToSeq(S \ {m})

\* TaskManager.retry_failed_tasks
TMRetryFailedTasks ==
    /\ component = "TaskManager"
    /\ task_objs' = [i \in DOMAIN task_objs |->
                       IF i \in Retryable
                         THEN [task_objs[i] EXCEPT !.status = "pending",
                                                   !.retry_count = @ + 1,
                                                   !.error_message = FALSE]
                         ELSE task_objs[i]]
    /\ task_queue' = task_queue \o SetToSeq(Retryable)
    /\ UNCHANGED <<component, lifecycle, config_call, last_call, calc, tab_tasks, now, max_concurrent, schedVars, botVars, batches, tm_running,
                   tm_running_tasks, workers>>

\* _worker, line 222-228: a worker that holds no task waits on the queue.
IdleWorker == tm_running /\ Cardinality(HeldObjs) < workers

\* _worker, lines 226-244, and _execute_task up to its await (lines 256-272):
\* a worker takes the head of the queue, drops it when cancelled, else marks
\* it running, creates the executor's coroutine and registers it.
\* (The queue orders by priority, then enqueue time; the model's tasks all have
\* the default priority.  No queued task has a scheduled_time in the future.
\* The workers differ in their log name only and are counted, not named.)
WorkerTake ==
    /\ component = "TaskManager"
    /\ IdleWorker
    /\ task_queue # <<>>
    /\ LET i == Head(task_queue)
       IN /\ task_queue' = Tail(task_queue)
          /\ IF task_objs[i].status = "cancelled"
               THEN UNCHANGED <<task_objs, tm_running_tasks>>
               ELSE /\ task_objs' = [task_objs EXCEPT ![i].status = "running",
                                                      ![i].pc = "await",
                                                      ![i].attempts = @ + 1]
                    /\ tm_running_tasks' =
                          [tm_running_tasks EXCEPT ![task_objs[i].task_id] = i]
    /\ UNCHANGED <<component, lifecycle, config_call, last_call, calc, tab_tasks, now, max_concurrent, schedVars, botVars, batches, tm_running, workers>>

\* The executor's coroutine finishes: it returned a result or raised.
ExecutorDone(i, outcome) ==
    /\ component = "TaskManager"
    /\ i \in ExecutingObjs
    /\ task_objs' = [task_objs EXCEPT ![i].pc = "resume", ![i].res = outcome]
    /\ UNCHANGED <<component, lifecycle, config_call, last_call, calc, tab_tasks, now, max_concurrent, schedVars, botVars, batches, tm_running, task_queue,
                   tm_running_tasks, workers>>

\* Variant of CanRetry with the comparison off by one (<= for <).
CanRetry_OffByOne(t) == t.retry_count <= MaxRetries

\* _execute_task, line 295: a failed task is queued again.
CanRetry(t) == t.retry_count < MaxRetries

\* _execute_task, lines 306-309 (finally): the id is dropped from running_tasks.
DropRunning(id) == [tm_running_tasks EXCEPT ![id] = 0]

\* _execute_task, line 301: the seconds slept before the task is queued again,
\* from the retry_count after its increment.
RetryDelay(retry_count) ==
    IF 2 ^ retry_count < RetryDelayCap THEN 2 ^ retry_count ELSE RetryDelayCap

\* _execute_task after its await, lines 274-299: the Task after the outcome.
\* A failure stores str(e) in error_message (line 289); the retry branch sets
\* it back to None (line 298).
AfterOutcome(t) ==
    CASE t.res = "ok" ->
           [t EXCEPT !.status = "completed", !.pc = "none", !.res = "none"]
      [] t.res = "cancelled" ->
           [t EXCEPT !.status = "cancelled", !.pc = "none", !.res = "none"]
      [] OTHER ->
           IF CanRetry(t)
             THEN [t EXCEPT !.status = "pending", !.retry_count = @ + 1,
                            !.error_message = FALSE,
                            !.delay = RetryDelay(t.retry_count + 1),
                            !.pc = "backoff", !.res = "none"]
             ELSE [t EXCEPT !.status = "failed", !.error_message = TRUE,
                            !.pc = "none", !.res = "none"]

\* Variant of WorkersAfter in which an executor's exception ends the worker.
WorkersAfter_ExceptionEscapes(t) == IF t.res = "exc" THEN workers - 1 ELSE workers

\* The workers once _execute_task has dealt with the outcome of t: it catches
\* CancelledError and Exception (lines 282, 287), and _worker catches what
\* may still come out of it (line 247), so the worker goes round its loop.
WorkersAfter(t) == workers

\* _execute_task after its await, lines 274-312; the finally block runs now
\* unless the worker goes to sleep for the retry.
WorkerResume(i) ==
    /\ component = "TaskManager"
    /\ i \in DOMAIN task_objs /\ task_objs[i].pc = "resume"
    /\ task_objs' = [task_objs EXCEPT ![i] = AfterOutcome(task_objs[i])]
    /\ tm_running_tasks' = IF AfterOutcome(task_objs[i]).pc = "backoff"
                             THEN tm_running_tasks
                             ELSE DropRunning(task_objs[i].task_id)
    /\ workers' = WorkersAfter(task_objs[i])
    /\ UNCHANGED <<component, lifecycle, config_call, last_call, calc, tab_tasks, now, max_concurrent, schedVars, botVars,
                   batches, tm_running, task_queue>>

\* _execute_task, lines 301-312: the backoff sleep ends, the task is queued
\* again, and the finally block runs.
WorkerBackoffDone(i) ==
    /\ component = "TaskManager"
    /\ i \in DOMAIN task_objs /\ task_objs[i].pc = "backoff"
    /\ task_objs' = [task_objs EXCEPT ![i].pc = "none", ![i].delay = 0]
    /\ task_queue' = Append(task_queue, i)
    /\ tm_running_tasks' = DropRunning(task_objs[i].task_id)
    /\ UNCHANGED <<component, lifecycle, config_call, last_call, calc, tab_tasks, now, max_concurrent, schedVars, botVars, batches, tm_running, workers>>

\* =============================================== BotManager, ConfigManager

\* A task dict.  `in_config` tells whether config["tasks"] still holds it;
\* `attempts` is a history field, not in the source: the _execute_task calls
\* on this dict that have finished.
NewBotTask(id) ==
    [id |-> id, in_config |-> TRUE, run_count |-> 0, success_count |-> 0,
     error_count |-> 0, attempts |-> 0]

\* History of the ConfigManager's interface: the call of add_task,
\* delete_task or update_task that has just returned, whether its save_config
\* wrote the file (`saved`; TRUE too when the call did not save at all), and
\* the value it returned.  Any other step of the BotManager clears it.
NoConfigCall == [op |-> "none", saved |-> TRUE, ret |-> FALSE]

ConfigReturned(op, saved, ret) == [op |-> op, saved |-> saved, ret |-> ret]

\* What ConfigManager.add_task returns once the dict is appended: save_config
\* catches what open() or json.dump raise and prints it (lines 53-57), so
\* add_task goes on to `return True` (lines 151-152) whether the file was
\* written or not.
ConfigAddTaskReturns(saved) == TRUE

\* What update_task and delete_task return for an id they found (lines 165-167,
\* 180-182): True, whatever became of save_config.
ConfigMutationReturns(saved) == TRUE

\* The dicts in config["tasks"].
ConfigTasks == {o \in DOMAIN bot_objs : bot_objs[o].in_config}

\* ConfigManager.get_task: the stored dict with that id (0: None).
GetTask(id) ==
    LET S == {o \in ConfigTasks : bot_objs[o].id = id}
    IN IF S = {} THEN 0 ELSE CHOOSE o \in S : \A k \in S : o <= k

\* ConfigManager.add_task, lines 139-140: max(existing ids, default 0) + 1.
NextBotTaskId ==
    LET ids == {bot_objs[o].id : o \in ConfigTasks}
    IN IF ids = {} THEN 1 ELSE (CHOOSE m \in ids : \A k \in ids : k <= m) + 1

\* The _execute_task calls so far, finished or in flight.
RECURSIVE SumAttempts(_)
SumAttempts(objs) ==
    IF objs = <<>> THEN 0 ELSE Head(objs).attempts + SumAttempts(Tail(objs))

BotStarted == SumAttempts(bot_objs) + Cardinality(bot_runs)

\* BotManager._finish_add_task: ConfigManager.add_task stores the dict under a
\* new id with zeroed counters, _schedule_task registers a job that holds the
\* same dict (replacing a job of the same id).
BotFinishAddTask ==
    /\ component = "BotManager"
    /\ Len(bot_objs) < MaxBotTasks
    /\ bot_objs' = Append(bot_objs, NewBotTask(NextBotTaskId))
    /\ bot_jobs' = {o \in bot_jobs : bot_objs[o].id # NextBotTaskId}
                      \cup {Len(bot_objs) + 1}
    /\ \E saved \in BOOLEAN :
          config_call' = ConfigReturned("add_task", saved, ConfigAddTaskReturns(saved))
    /\ UNCHANGED <<component, lifecycle, last_call, calc, tab_tasks, now, max_concurrent, schedVars, tmVars, bot_runs, batches>>

\* BotManager.delete_task_command: ConfigManager.delete_task drops the dict,
\* then the job of that id is removed.  A run in flight goes on.
BotDeleteTask(id) ==
    /\ component = "BotManager"
    /\ IF GetTask(id) = 0
         THEN UNCHANGED <<bot_objs, bot_jobs>>
         ELSE /\ bot_objs' = [bot_objs EXCEPT ![GetTask(id)].in_config = FALSE]
              /\ bot_jobs' = {o \in bot_jobs : bot_objs[o].id # id}
    /\ \E saved \in BOOLEAN :
          config_call' = IF GetTask(id) = 0
                           THEN ConfigReturned("delete_task", TRUE, FALSE)
                           ELSE ConfigReturned("delete_task", saved, ConfigMutationReturns(saved))
    /\ UNCHANGED <<component, lifecycle, last_call, calc, tab_tasks, now, max_concurrent, schedVars, tmVars, bot_runs, batches>>

\* The job of dict o fires: APScheduler calls _execute_task_wrapper(task),
\* which awaits _execute_task.  (APScheduler runs one instance of a job at a
\* time: max_instances is left at its default of 1.)
BotJobFire(o) ==
    /\ component = "BotManager"
    /\ o \in bot_jobs
    /\ [obj |-> o, kind |-> "sched"] \notin bot_runs
    /\ BotStarted < MaxBotRuns
    /\ bot_runs' = bot_runs \cup {[obj |-> o, kind |-> "sched"]}
    /\ config_call' = NoConfigCall
    /\ UNCHANGED <<component, lifecycle, last_call, calc, tab_tasks, now, max_concurrent, schedVars, tmVars, bot_objs,
                   bot_jobs, batches>>

\* BotManager.run_task_command up to its await: _execute_task on the stored dict.
BotRunNow(id) ==
    /\ component = "BotManager"
    /\ GetTask(id) # 0
    /\ BotStarted < MaxBotRuns
    /\ bot_runs' = bot_runs \cup {[obj |-> GetTask(id), kind |-> "now"]}
    /\ config_call' = NoConfigCall
    /\ UNCHANGED <<component, lifecycle, last_call, calc, tab_tasks, now, max_concurrent, schedVars, tmVars, bot_objs,
                   bot_jobs, batches>>

\* Variant of WrapperStats that counts the run but forgets the failure.
WrapperStats_NoErrorCount(t, success) ==
    IF success
      THEN [t EXCEPT !.run_count = @ + 1, !.success_count = @ + 1]
      ELSE [t EXCEPT !.run_count = @ + 1]

\* _execute_task_wrapper, lines 1041-1049, and ConfigManager.update_task_stats,
\* lines 213-218: the counters after one run.
WrapperStats(t, success) ==
    IF success
      THEN [t EXCEPT !.run_count = @ + 1, !.success_count = @ + 1]
      ELSE [t EXCEPT !.run_count = @ + 1, !.error_count = @ + 1]

\* ConfigManager.update_task(user_id, id, updates): the stored dict with that
\* id takes every key of `updates` (dict.update).
UpdateTask(objs, id, updates) ==
    LET S == {o \in DOMAIN objs : objs[o].in_config /\ objs[o].id = id}
    IN IF S = {} THEN objs
       ELSE LET o == CHOOSE x \in S : \A k \in S : x <= k
            IN [objs EXCEPT ![o].run_count = updates.run_count,
                            ![o].success_count = updates.success_count,
                            ![o].error_count = updates.error_count]

\* The dicts after _execute_task returned `success` for the run r: the
\* wrapper updates the counters of its dict and saves it with update_task;
\* run_task_command only reports the outcome to the user.
AfterExec(r, success) ==
    LET done == [bot_objs EXCEPT ![r.obj].attempts = @ + 1]
    IN IF r.kind = "now" THEN done
       ELSE LET upd == [done EXCEPT ![r.obj] = WrapperStats(done[r.obj], success)]
            IN UpdateTask(upd, upd[r.obj].id, upd[r.obj])

\* _execute_task returns True (message sent) or False (not connected, send
\* failed, or any exception, which it catches).
BotExecDone(r, success) ==
    /\ component = "BotManager"
    /\ r \in bot_runs
    /\ bot_runs' = bot_runs \ {r}
    /\ bot_objs' = AfterExec(r, success)
    /\ \E saved \in BOOLEAN :
          config_call' = IF r.kind = "now" \/ GetTask(bot_objs[r.obj].id) = 0
                           THEN NoConfigCall
                           ELSE ConfigReturned("update_task", saved, ConfigMutationReturns(saved))
    /\ UNCHANGED <<component, lifecycle, last_call, calc, tab_tasks, now, max_concurrent, schedVars, tmVars, bot_jobs, batches>>

\* ConfigManager.update_task_stats(user_id, id, success): the report of one
\* finished run of the stored task.
ConfigUpdateTaskStats(id, success) ==
    /\ component = "BotManager"
    /\ GetTask(id) # 0
    /\ BotStarted < MaxBotRuns
    /\ bot_objs' = [bot_objs EXCEPT ![GetTask(id)] =
                      WrapperStats([@ EXCEPT !.attempts = @ + 1], success)]
    /\ config_call' = NoConfigCall
    /\ UNCHANGED <<component, lifecycle, last_call, calc, tab_tasks, now, max_concurrent, schedVars, tmVars, bot_jobs,
                   bot_runs, batches>>

\* ============================================================ batch checkin

\* Two batch checkins can be under way at once (two users' commands, a
\* command and the global job, two TaskManager workers).
BatchIds == {"b1", "b2"}

\* A batch: `kind` is "gather" for AccountManager.batch_checkin and "loop" for
\* TaskManager._execute_checkin_task; `accts[i]` is the state of the i-th
\* account of account_ids:
\*   st = "wait"   its signin has not begun (gather: waiting for the semaphore)
\*   st = "sleep"  gather: holds the semaphore, in the random delay
\*   st = "call"   the external signin call is in flight
\*   st = "pause"  loop: in the sleep(1) after its call
\*   st = "done"   finished
\* and `out` what its signin call did ("ok", "fail": it reported a failure,
\* "exc": it raised); `results` is the list the body builds and `ret` the
\* value it returned.  `out_of_order` is a history field, not in the source:
\* a signin of the batch has finished before that of an earlier account.
NoBatch ==
    [kind |-> "none", phase |-> "idle", accts |-> <<>>, results |-> <<>>,
     ret |-> [total |-> 0, success_count |-> 0], out_of_order |-> FALSE]

NewAccounts(n) == [i \in 1..n |-> [st |-> "wait", out |-> "none"]]

\* Accounts of batch b whose external signin call is in flight.
CallsInFlight(b) == {i \in DOMAIN batches[b].accts : batches[b].accts[i].st = "call"}

\* Accounts of batch b that hold the batch's semaphore.
Holders(b) ==
    {i \in DOMAIN batches[b].accts : batches[b].accts[i].st \in {"sleep", "call"}}

\* r.get('success') counted over a result list (account_manager.py:341,
\* task_manager.py:351).
RECURSIVE CountSuccess(_)
CountSuccess(rs) ==
    IF rs = <<>> THEN 0
    ELSE (IF Head(rs).success THEN 1 ELSE 0) + CountSuccess(Tail(rs))

\* Accounts not yet given to a batch.
AccountsLeft == MaxAccounts - Len(batches["b1"].accts) - Len(batches["b2"].accts)

\* batch_checkin and _execute_checkin_task with an empty account list return
\* at once, without any call.
StartBatch(k, n) ==
    [kind |-> k, phase |-> IF n = 0 THEN "returned" ELSE "running",
     accts |-> NewAccounts(n), results |-> <<>>,
     ret |-> [total |-> 0, success_count |-> 0], out_of_order |-> FALSE]

\* A caller enters AccountManager.batch_checkin(user_id, account_ids), lines
\* 297-322: the semaphore is created and one coroutine per account handed to
\* gather.  (Slot b2 is used after b1: the slots are interchangeable.)
BatchCheckin(b, n) ==
    /\ component = "AccountManager"
    /\ batches[b].kind = "none"
    /\ b = "b2" => batches["b1"].kind # "none"
    /\ n <= AccountsLeft
    /\ batches' = [batches EXCEPT ![b] = StartBatch("gather", n)]
    /\ UNCHANGED <<component, lifecycle, config_call, last_call, calc, tab_tasks, now, max_concurrent, schedVars, tmVars, botVars>>

\* Variant of SemaphoreFree that never makes a coroutine wait.
SemaphoreFree_Unbounded(b) == TRUE

\* asyncio.Semaphore(self.max_concurrent), created by the call (line 312): it
\* admits a coroutine while fewer than max_concurrent hold it.
SemaphoreFree(b) == Cardinality(Holders(b)) < CheckinConcurrency

\* checkin_with_semaphore, lines 314-318: `async with semaphore`, granted in
\* the order the coroutines asked (the order of account_ids), then the random
\* delay when the batch has more than one account.
SemAcquire(b, i) ==
    /\ component = "AccountManager"
    /\ batches[b].kind = "gather" /\ batches[b].phase = "running"
    /\ i \in DOMAIN batches[b].accts
    /\ batches[b].accts[i].st = "wait"
    /\ \A k \in 1..(i - 1) : batches[b].accts[k].st # "wait"
    /\ SemaphoreFree(b)
    /\ batches' = [batches EXCEPT ![b].accts[i].st =
                      IF Len(batches[b].accts) > 1 THEN "sleep" ELSE "call"]
    /\ UNCHANGED <<component, lifecycle, config_call, last_call, calc, tab_tasks, now, max_concurrent, schedVars, tmVars, botVars>>

\* checkin_with_semaphore, lines 319-321: the delay is over, single_checkin is
\* awaited.
JitterDone(b, i) ==
    /\ component = "AccountManager"
    /\ batches[b].kind = "gather"
    /\ i \in DOMAIN batches[b].accts
    /\ batches[b].accts[i].st = "sleep"
    /\ batches' = [batches EXCEPT ![b].accts[i].st = "call"]
    /\ UNCHANGED <<component, lifecycle, config_call, last_call, calc, tab_tasks, now, max_concurrent, schedVars, tmVars, botVars>>

\* single_checkin ends: it returned the site's result ("ok", "fail") or an
\* exception was raised ("exc": caught at line 287, or delivered by gather);
\* the semaphore is released.
SingleCheckinDone(b, i, out) ==
    /\ component = "AccountManager"
    /\ batches[b].kind = "gather"
    /\ i \in DOMAIN batches[b].accts
    /\ batches[b].accts[i].st = "call"
    /\ batches' = [batches EXCEPT
          ![b].accts[i] = [st |-> "done", out |-> out],
          ![b].out_of_order =
              @ \/ \E k \in 1..(i - 1) : batches[b].accts[k].st # "done"]
    /\ UNCHANGED <<component, lifecycle, config_call, last_call, calc, tab_tasks, now, max_concurrent, schedVars, tmVars, botVars>>

\* Variant of GatherResults as gather without return_exceptions=True would
\* behave: the first exception leaves gather and batch_checkin's outer
\* handler returns an empty list.
GatherResults_Propagate(accts) ==
    IF \E i \in DOMAIN accts : accts[i].out = "exc"
      THEN <<>>
      ELSE [i \in DOMAIN accts |-> [account |-> i, success |-> accts[i].out = "ok"]]

\* Variant of GatherResults in which the dict built for an exception names
\* no account.
GatherResults_ExceptionWithoutId(accts) ==
    [i \in DOMAIN accts |->
        [account |-> IF accts[i].out = "exc" THEN 0 ELSE i,
         success |-> accts[i].out = "ok"]]

\* gather(*tasks, return_exceptions=True) and lines 325-336: one result per
\* account, in the order of account_ids; single_checkin's failure dict and an
\* exception delivered by gather both give success False.
GatherResults(accts) ==
    [i \in DOMAIN accts |-> [account |-> i, success |-> accts[i].out = "ok"]]

\* Variant of Summary that counts every result as a success.
Summary_CountAll(n, rs) == [total |-> n, success_count |-> Len(rs)]

\* The totals of a batch with the result list rs: the number n of accounts
\* (_execute_checkin_task: len(account_ids); batch_checkin returns the list,
\* whose length the caller reads) and the number of results with success
\* true (account_manager.py:341, task_manager.py:347-352).
Summary(n, rs) == [total |-> n, success_count |-> CountSuccess(rs)]

\* batch_checkin, lines 323-345: gather has every result; they are processed,
\* counted and returned.
BatchCheckinReturn(b) ==
    /\ component = "AccountManager"
    /\ batches[b].kind = "gather" /\ batches[b].phase = "running"
    /\ \A i \in DOMAIN batches[b].accts : batches[b].accts[i].st = "done"
    /\ batches' = [batches EXCEPT
          ![b].phase = "returned",
          ![b].results = GatherResults(batches[b].accts),
          ![b].ret = Summary(Len(GatherResults(batches[b].accts)),
                             GatherResults(batches[b].accts))]
    /\ UNCHANGED <<component, lifecycle, config_call, last_call, calc, tab_tasks, now, max_concurrent, schedVars, tmVars, botVars>>

\* A TaskManager worker starts _execute_checkin_task(task), lines 314-328.
ExecuteCheckinTask(b, n) ==
    /\ component = "AccountManager"
    /\ batches[b].kind = "none"
    /\ b = "b2" => batches["b1"].kind # "none"
    /\ n <= AccountsLeft
    /\ batches' = [batches EXCEPT ![b] = StartBatch("loop", n)]
    /\ UNCHANGED <<component, lifecycle, config_call, last_call, calc, tab_tasks, now, max_concurrent, schedVars, tmVars, botVars>>

\* _execute_checkin_task, lines 331-335: the loop reaches the next account and
\* awaits _perform_checkin.
LoopCall(b, i) ==
    /\ component = "AccountManager"
    /\ batches[b].kind = "loop" /\ batches[b].phase = "running"
    /\ i \in DOMAIN batches[b].accts
    /\ batches[b].accts[i].st = "wait"
    /\ \A k \in 1..(i - 1) : batches[b].accts[k].st = "done"
    /\ batches' = [batches EXCEPT ![b].accts[i].st = "call"]
    /\ UNCHANGED <<component, lifecycle, config_call, last_call, calc, tab_tasks, now, max_concurrent, schedVars, tmVars, botVars>>

\* _execute_checkin_task, lines 333-345: the result of the account is
\* appended and the loop sleeps; an exception is caught, appended as a failed
\* result, and the loop goes on.
LoopAfterCall(bt, i, out) ==
    IF out = "exc"
      THEN [bt EXCEPT !.accts[i] = [st |-> "done", out |-> out],
                      !.results = Append(@, [account |-> i, success |-> FALSE])]
      ELSE [bt EXCEPT !.accts[i] = [st |-> "pause", out |-> out],
                      !.results = Append(@, [account |-> i, success |-> out = "ok"])]

\* _perform_checkin ends.  (The source's body is a stub that reports success;
\* the signin it stands for can report a failure or raise.)
PerformCheckinDone(b, i, out) ==
    /\ component = "AccountManager"
    /\ batches[b].kind = "loop" /\ batches[b].phase = "running"
    /\ i \in DOMAIN batches[b].accts
    /\ batches[b].accts[i].st = "call"
    /\ batches' = [batches EXCEPT ![b] = LoopAfterCall(batches[b], i, out)]
    /\ UNCHANGED <<component, lifecycle, config_call, last_call, calc, tab_tasks, now, max_concurrent, schedVars, tmVars, botVars>>

\* _execute_checkin_task, line 338: the sleep(1) after an account is over.
LoopPauseDone(b, i) ==
    /\ component = "AccountManager"
    /\ batches[b].kind = "loop"
    /\ i \in DOMAIN batches[b].accts
    /\ batches[b].accts[i].st = "pause"
    /\ batches' = [batches EXCEPT ![b].accts[i].st = "done"]
    /\ UNCHANGED <<component, lifecycle, config_call, last_call, calc, tab_tasks, now, max_concurrent, schedVars, tmVars, botVars>>

\* _execute_checkin_task, lines 347-352: the loop is over, the totals are returned.
ExecuteCheckinReturn(b) ==
    /\ component = "AccountManager"
    /\ batches[b].kind = "loop" /\ batches[b].phase = "running"
    /\ \A i \in DOMAIN batches[b].accts : batches[b].accts[i].st = "done"
    /\ batches' = [batches EXCEPT
          ![b].phase = "returned",
          ![b].ret = Summary(Len(batches[b].accts), batches[b].results)]
    /\ UNCHANGED <<component, lifecycle, config_call, last_call, calc, tab_tasks, now, max_concurrent, schedVars, tmVars, botVars>>

\* Time passes (the Scheduler is the one component that reads the clock).
Advance ==
    /\ component = "Scheduler"
    /\ now < MaxTime
    /\ now' = now + 1
    /\ last_call' = NoCall(last_call.on)
    /\ UNCHANGED <<component, lifecycle, config_call, calc, tab_tasks, max_concurrent, schedVars, tmVars, botVars, batches>>

\* ========================================================== TelegramAutoBot

\* A task dict of TelegramAutoBot together with its schedule_task coroutine:
\* `listed` tells whether the dict is in self.tasks, and `pc` where the
\* coroutine stands:
\*   pc = "wait"   in the sleep until the task's time of day (line 182)
\*   pc = "exec"   awaiting execute_task, which sends the message (line 184)
\*   pc = "pause"  in the 24 hour sleep after the send (line 188)
\* task['enabled'] is set True by add_task and written nowhere else, so the
\* `while task['enabled']` loop of schedule_task has no exit.
NewTabTask(id) == [id |-> id, listed |-> TRUE, pc |-> "wait"]

\* self.tasks
ListedTasks == {o \in DOMAIN tab_tasks : tab_tasks[o].listed}

\* TelegramAutoBot.add_task, line 101: 'id': len(self.tasks) + 1
NextTabTaskId == Cardinality(ListedTasks) + 1

\* addtask_handler: add_task appends the dict, then schedule_task(task) is
\* started as an asyncio task.
TabAddTask ==
    /\ component = "TelegramAutoBot"
    /\ Len(tab_tasks) < MaxTabTasks
    /\ tab_tasks' = Append(tab_tasks, NewTabTask(NextTabTaskId))
    /\ UNCHANGED <<component, lifecycle, config_call, last_call, calc, now, max_concurrent, schedVars, tmVars, botVars, batches>>

\* TelegramAutoBot.remove_task: self.tasks keeps the dicts with another id.
\* The coroutines in self.running_tasks are left alone.
RemoveFromTasks(id) ==
    [o \in DOMAIN tab_tasks |->
        IF tab_tasks[o].id = id THEN [tab_tasks[o] EXCEPT !.listed = FALSE]
                                ELSE tab_tasks[o]]

\* deletetask_handler: remove_task(task_id), whatever the id.
TabRemoveTask(id) ==
    /\ component = "TelegramAutoBot"
    /\ tab_tasks' = RemoveFromTasks(id)
    /\ UNCHANGED <<component, lifecycle, config_call, last_call, calc, now, max_concurrent, schedVars, tmVars, botVars, batches>>

\* schedule_task, lines 181-184: the sleep is over, execute_task is called.
TabScheduleFire(o) ==
    /\ component = "TelegramAutoBot"
    /\ o \in DOMAIN tab_tasks /\ tab_tasks[o].pc = "wait"
    /\ tab_tasks' = [tab_tasks EXCEPT ![o].pc = "exec"]
    /\ UNCHANGED <<component, lifecycle, config_call, last_call, calc, now, max_concurrent, schedVars, tmVars, botVars, batches>>

\* execute_task returned (it catches every exception); a daily task then
\* sleeps 24 hours.
TabExecuteDone(o) ==
    /\ component = "TelegramAutoBot"
    /\ o \in DOMAIN tab_tasks /\ tab_tasks[o].pc = "exec"
    /\ tab_tasks' = [tab_tasks EXCEPT ![o].pc = "pause"]
    /\ UNCHANGED <<component, lifecycle, config_call, last_call, calc, now, max_concurrent, schedVars, tmVars, botVars, batches>>

\* schedule_task, line 188: the 24 hour sleep is over, the loop starts again.
TabPauseDone(o) ==
    /\ component = "TelegramAutoBot"
    /\ o \in DOMAIN tab_tasks /\ tab_tasks[o].pc = "pause"
    /\ tab_tasks' = [tab_tasks EXCEPT ![o].pc = "wait"]
    /\ UNCHANGED <<component, lifecycle, config_call, last_call, calc, now, max_concurrent, schedVars, tmVars, botVars, batches>>

\* ======================================================== next fire times

\* An instant is a number of seconds since midnight of day 0 (microsecond 0).
\* The inputs: a time of day built from these hours, minutes and seconds.
SampleHours == {0, 9, 23}
SampleMinutes == {0, 59}
SampleSeconds == {0, 5}

\* datetime(...) of day d at h:m:s
At(d, h, m, s) == d * 86400 + h * 3600 + m * 60 + s

Instants ==
    {At(d, h, m, s) : d \in 0..MaxDay, h \in SampleHours, m \in SampleMinutes,
                      s \in SampleSeconds}

\* now.replace(hour=h, minute=m, second=0, microsecond=0), and
\* datetime.combine(datetime.now().date(), time(h, m))
ReplaceTime(t, h, m) == At(t \div 86400, h, m, 0)

\* The valid schedules: a dict of utils.get_next_run_time ("daily" with hour
\* and minute, "interval" with minutes, "cron"); the cron expression of a
\* "cron" schedule is that of the job `job`.
Schedules ==
    [type : {"daily"}, hour : SampleHours, minute : SampleMinutes,
       minutes : {0}, job : {"database_cleanup"}]
    \cup [type : {"interval"}, hour : {0}, minute : {0},
            minutes : 1..MaxIntervalMinutes, job : {"database_cleanup"}]
    \cup [type : {"cron"}, hour : {0}, minute : {0}, minutes : {0}, job : JobIds]

\* A computed fire time: a datetime, or None.
Datetime(t) == [none |-> FALSE, at |-> t]
None == [none |-> TRUE, at |-> 0]

\* utils.get_next_run_time(schedule) called at the instant t.
UtilsGetNextRunTime(schedule, t) ==
    CASE schedule.type = "daily" ->
            LET target_time == ReplaceTime(t, schedule.hour, schedule.minute)
            IN IF target_time <= t THEN Datetime(target_time + 86400)
                                   ELSE Datetime(target_time)
      [] schedule.type = "interval" -> Datetime(t + schedule.minutes * 60)
      [] schedule.type = "cron" -> None

\* Scheduler._get_next_run_time(cron_expression, base_time): croniter works in
\* whole minutes.
CronNextRunTime(j, base_time) ==
    Datetime(SchedulerGetNextRunTime(TRUE, j, base_time \div 60) * 60)

\* TelegramAutoBot.schedule_task, lines 168-177: target_datetime for a task
\* with 'time' h:m, evaluated at the instant t.
ScheduleTaskTarget(h, m, t) ==
    LET target_datetime == ReplaceTime(t, h, m)
    IN IF t > target_datetime THEN Datetime(target_datetime + 86400)
                              ELSE Datetime(target_datetime)

\* The seconds execute_task takes (sending the message and saving the tasks).
SampleDurations == {1, 5}

\* schedule_task, lines 179-184: the instant at which execute_task is called
\* in a pass of the loop that begins at the instant t: after the sleep until
\* target_datetime, or at once when wait_seconds is not positive.
ExecutionInPass(h, m, t) ==
    LET target_datetime == ScheduleTaskTarget(h, m, t).at
    IN IF target_datetime > t THEN target_datetime ELSE t

\* schedule_task, lines 184-188 and back to line 165: the pass after an
\* execution that began at `executed` and took `duration` seconds begins
\* when the sleep of 86400 seconds is over.
NextPassBegins(executed, duration) == executed + duration + 86400

\* An evaluation: the schedule, the instant, which function ran and its result;
\* for schedule_task also the instants of the execution of that pass and of
\* the execution of the pass after it.
NewCalc(sch, t) ==
    [schedule |-> sch, at |-> t, by |-> "none", result |-> None,
     executed |-> None, next |-> None]
NoCalc == NewCalc([type |-> "none", hour |-> 0, minute |-> 0, minutes |-> 0,
                   job |-> "database_cleanup"], 0)

CalcUtils ==
    /\ component = "TriggerCalculator"
    /\ calc.by = "none"
    /\ calc' = [calc EXCEPT !.by = "utils.get_next_run_time",
                            !.result = UtilsGetNextRunTime(calc.schedule, calc.at)]
    /\ UNCHANGED <<component, lifecycle, config_call, last_call, now, max_concurrent, schedVars, tmVars, botVars,
                   batches, tab_tasks>>

CalcScheduler ==
    /\ component = "TriggerCalculator"
    /\ calc.by = "none"
    /\ calc.schedule.type = "cron"
    /\ calc' = [calc EXCEPT !.by = "Scheduler._get_next_run_time",
                            !.result = CronNextRunTime(calc.schedule.job, calc.at)]
    /\ UNCHANGED <<component, lifecycle, config_call, last_call, now, max_concurrent, schedVars, tmVars, botVars,
                   batches, tab_tasks>>

CalcScheduleTask ==
    /\ component = "TriggerCalculator"
    /\ calc.by = "none"
    /\ calc.schedule.type = "daily"
    /\ calc' = [calc EXCEPT !.by = "TelegramAutoBot.schedule_task",
                            !.result = ScheduleTaskTarget(calc.schedule.hour,
                                                          calc.schedule.minute, calc.at)]
    /\ UNCHANGED <<component, lifecycle, config_call, last_call, now, max_concurrent, schedVars, tmVars, botVars,
                   batches, tab_tasks>>

\* schedule_task for a daily task, two passes of its loop: the execution of
\* the pass evaluated before, and the execution of the pass that follows it.
CalcScheduleLoop(duration) ==
    /\ component = "TriggerCalculator"
    /\ calc.by = "TelegramAutoBot.schedule_task"
    /\ LET h == calc.schedule.hour
           m == calc.schedule.minute
           executed == ExecutionInPass(h, m, calc.at)
       IN calc' = [calc EXCEPT
                     !.by = "TelegramAutoBot.schedule_task loop",
                     !.executed = Datetime(executed),
                     !.next = Datetime(ExecutionInPass(h, m,
                                          NextPassBegins(executed, duration)))]
    /\ UNCHANGED <<component, lifecycle, config_call, last_call, now, max_concurrent, schedVars, tmVars, botVars,
                   batches, tab_tasks>>

\* ---------------------------------------------------------- specification

Units == [id : JobIds, stage : Stages, stale : BOOLEAN, tracked : BOOLEAN]

\* The most _scheduler_loop tasks alive at once.
MaxLoops == 2

\* The Scheduler as __init__ leaves it (lines 48-51): is_running False and
\* no scheduler_task.  `loops` counts the _scheduler_loop tasks alive, `stop`
\* is the position of the stop() call in progress; `stop_returned` is
\* history: a stop() call has returned and start() has not been called since.
Constructed ==
    [is_running |-> FALSE, loops |-> 0, stop |-> "idle", stop_returned |-> FALSE]

\* The Scheduler after start() (lines 61-62): is_running True and one loop.
Started == [Constructed EXCEPT !.is_running = TRUE, !.loops = 1]

\* The specifications of the running Scheduler begin after start().
AfterStart == component = "Scheduler" => lifecycle = Started

Init ==
    /\ component \in Components
    /\ now = 0
    /\ lifecycle \in IF component = "Scheduler" THEN {Constructed, Started}
                                                ELSE {Constructed}
    /\ scheduled_tasks = [j \in JobIds |-> NoTask]
    /\ async_tasks = {}
    /\ tm_running = FALSE
    /\ task_objs = <<>>
    /\ task_queue = <<>>
    /\ tm_running_tasks = [id \in TaskIds |-> 0]
    /\ workers = 0
    /\ max_concurrent \in IF component \in {"Scheduler", "TaskManager"}
                             THEN {1, MaxConcurrent} ELSE {MaxConcurrent}
    /\ bot_objs = <<>>
    /\ bot_jobs = {}
    /\ bot_runs = {}
    /\ batches = [b \in BatchIds |-> NoBatch]
    /\ tab_tasks = <<>>
    /\ config_call = NoConfigCall
    /\ last_call \in IF component = "Scheduler" THEN {NoCall(on) : on \in BOOLEAN}
                                                ELSE {NoCall(FALSE)}
    /\ calc \in IF component = "TriggerCalculator"
                  THEN {NewCalc(sch, t) : sch \in Schedules, t \in Instants}
                  ELSE {NoCalc}

\* start(), lines 57-59: a call made while is_running is set returns at once.
StartProceeds == ~lifecycle.is_running

\* Scheduler.start: sets is_running, creates the _scheduler_loop task and adds
\* the default jobs (_setup_default_tasks, add_task with literal cron
\* expressions).  add_task has no await: one step.
SchedStart ==
    /\ component = "Scheduler"
    /\ lifecycle.loops < MaxLoops
    /\ IF StartProceeds
         THEN /\ lifecycle' = [lifecycle EXCEPT !.is_running = TRUE,
                                                !.loops = @ + 1,
                                                !.stop_returned = FALSE]
              /\ scheduled_tasks' =
                    [scheduled_tasks EXCEPT
                       !["database_cleanup"] = NewScheduledTask("database_cleanup", TRUE)]
              /\ async_tasks' =
                    {IF u.id = "database_cleanup" THEN [u EXCEPT !.stale = TRUE] ELSE u
                       : u \in async_tasks}
         ELSE /\ lifecycle' = [lifecycle EXCEPT !.stop_returned = FALSE]
              /\ UNCHANGED schedVars
    /\ last_call' = NoCall(last_call.on)
    /\ UNCHANGED <<component, config_call, calc, tab_tasks, now, max_concurrent, tmVars, botVars, batches>>

\* Scheduler.stop, lines 71-80: a call on a Scheduler that is not running
\* returns at once; else is_running is cleared, the loop task is cancelled and
\* awaited.  The loop is at its sleep (its pass has no await), so the
\* CancelledError ends it before it makes another pass.  One stop() call is
\* followed at a time.
SchedStop ==
    /\ component = "Scheduler"
    /\ lifecycle.stop = "idle"
    /\ IF lifecycle.is_running
         THEN lifecycle' = [lifecycle EXCEPT !.is_running = FALSE,
                                             !.loops = IF @ > 0 THEN @ - 1 ELSE 0,
                                             !.stop = "await_loop"]
         ELSE lifecycle' = [lifecycle EXCEPT !.stop_returned = TRUE]
    /\ last_call' = NoCall(last_call.on)
    /\ UNCHANGED <<component, config_call, calc, tab_tasks, now, max_concurrent, schedVars, tmVars, botVars, batches>>

\* stop(), lines 85-86: every task of running_tasks is cancelled.  The
\* CancelledError ends a task that has not finished (see CancelAndForget);
\* the finished task stays in running_tasks until line 92.
CancelledByStop ==
    {IF u.tracked THEN [u EXCEPT !.stage = "done"] ELSE u : u \in async_tasks}

\* stop(), lines 81-92, resumed when the loop task is over: the running tasks
\* are cancelled; with none in running_tasks the call clears the dict and
\* returns, else it awaits their gather.
SchedStopCancelJobs ==
    /\ component = "Scheduler"
    /\ lifecycle.stop = "await_loop"
    /\ async_tasks' = CancelledByStop
    /\ lifecycle' =
          IF RunningIds = {}
            THEN [lifecycle EXCEPT !.stop = "idle", !.stop_returned = TRUE]
            ELSE [lifecycle EXCEPT !.stop = "gather"]
    /\ last_call' = NoCall(last_call.on)
    /\ UNCHANGED <<component, config_call, calc, tab_tasks, now, max_concurrent, scheduled_tasks, tmVars, botVars, batches>>

\* stop(), line 92: running_tasks.clear() forgets every task, finished or
\* not; a task a new loop has created since line 90 goes on without an entry.
ClearedByStop ==
    {[u EXCEPT !.tracked = FALSE]
       : u \in {v \in async_tasks : ~(v.tracked /\ v.stage = "done")}}

\* stop(), lines 90-93, resumed when the gathered tasks are over.
SchedStopFinish ==
    /\ component = "Scheduler"
    /\ lifecycle.stop = "gather"
    /\ async_tasks' = ClearedByStop
    /\ lifecycle' = [lifecycle EXCEPT !.stop = "idle", !.stop_returned = TRUE]
    /\ last_call' = NoCall(last_call.on)
    /\ UNCHANGED <<component, config_call, calc, tab_tasks, now, max_concurrent, scheduled_tasks, tmVars, botVars, batches>>

NextScheduler ==
    \/ Advance
    \/ \E j \in JobIds, valid \in BOOLEAN : SchedAddTask(j, valid)
    \/ \E j \in JobIds : SchedRemoveTask(j)
    \/ \E j \in JobIds : SchedEnableTask(j)
    \/ \E j \in JobIds : SchedDisableTask(j)
    \/ SchedTick
    \/ \E u \in Units : RunTaskStart(u)
    \/ \E u \in Units : RunTaskSuccess(u)
    \/ \E u \in Units : RunTaskTimeout(u)
    \/ \E u \in Units : RunTaskException(u)
    \/ \E u \in Units, sent \in BOOLEAN : RunTaskNotified(u, sent)

NextTaskManager ==
    \/ TMStart
    \/ \E future, same_second \in BOOLEAN : TMAddTask(future, same_second)
    \/ \E id \in TaskIds : TMCancelTask(id)
    \/ TMRetryFailedTasks
    \/ WorkerTake
    \/ \E i \in 1..MaxTasks, outcome \in {"ok", "exc"} : ExecutorDone(i, outcome)
    \/ \E i \in 1..MaxTasks : WorkerResume(i)
    \/ \E i \in 1..MaxTasks : WorkerBackoffDone(i)

BotRuns == [obj : 1..MaxBotTasks, kind : {"sched", "now"}]

NextBotManager ==
    \/ BotFinishAddTask
    \/ \E id \in 1..MaxBotTasks : BotDeleteTask(id)
    \/ \E o \in 1..MaxBotTasks : BotJobFire(o)
    \/ \E id \in 1..MaxBotTasks : BotRunNow(id)
    \/ \E r \in BotRuns, success \in BOOLEAN : BotExecDone(r, success)
    \/ \E id \in 1..MaxBotTasks, success \in BOOLEAN : ConfigUpdateTaskStats(id, success)

NextTelegramAutoBot ==
    \/ TabAddTask
    \/ \E id \in 1..MaxTabTasks : TabRemoveTask(id)
    \/ \E o \in 1..MaxTabTasks : TabScheduleFire(o)
    \/ \E o \in 1..MaxTabTasks : TabExecuteDone(o)
    \/ \E o \in 1..MaxTabTasks : TabPauseDone(o)

NextTriggerCalculator ==
    \/ CalcUtils
    \/ CalcScheduler
    \/ CalcScheduleTask
    \/ \E duration \in SampleDurations : CalcScheduleLoop(duration)

Outcomes == {"ok", "fail", "exc"}

NextAccountManager ==
    \/ \E b \in BatchIds, n \in 0..MaxAccounts : BatchCheckin(b, n)
    \/ \E b \in BatchIds, i \in 1..MaxAccounts : SemAcquire(b, i)
    \/ \E b \in BatchIds, i \in 1..MaxAccounts : JitterDone(b, i)
    \/ \E b \in BatchIds, i \in 1..MaxAccounts, out \in Outcomes :
          SingleCheckinDone(b, i, out)
    \/ \E b \in BatchIds : BatchCheckinReturn(b)
    \/ \E b \in BatchIds, n \in 0..MaxAccounts : ExecuteCheckinTask(b, n)
    \/ \E b \in BatchIds, i \in 1..MaxAccounts : LoopCall(b, i)
    \/ \E b \in BatchIds, i \in 1..MaxAccounts, out \in Outcomes :
          PerformCheckinDone(b, i, out)
    \/ \E b \in BatchIds, i \in 1..MaxAccounts : LoopPauseDone(b, i)
    \/ \E b \in BatchIds : ExecuteCheckinReturn(b)

Next ==
    \/ NextScheduler \/ NextTaskManager \/ NextBotManager \/ NextAccountManager
    \/ NextTelegramAutoBot \/ NextTriggerCalculator

\* Every component.
Spec == Init /\ [][Next]_vars

\* The Scheduler alone.
InitScheduler == Init /\ component = "Scheduler" /\ ~last_call.on /\ AfterStart
SpecScheduler == InitScheduler /\ [][NextScheduler]_vars

\* The Scheduler alone, with the history of its interface calls.
InitSchedulerCalls == Init /\ component = "Scheduler" /\ last_call.on /\ AfterStart
SpecSchedulerCalls == InitSchedulerCalls /\ [][NextScheduler]_vars

\* The Scheduler from its construction, with start() and stop().
InitLifecycle == Init /\ component = "Scheduler" /\ ~last_call.on /\ lifecycle = Constructed
NextLifecycle ==
    \/ NextScheduler
    \/ SchedStart
    \/ SchedStop
    \/ SchedStopCancelJobs
    \/ SchedStopFinish
SpecLifecycle == InitLifecycle /\ [][NextLifecycle]_vars

\* The TaskManager alone.
InitTaskManager == Init /\ component = "TaskManager"
SpecTaskManager == InitTaskManager /\ [][NextTaskManager]_vars

\* The batch checkins alone.
InitAccountManager == Init /\ component = "AccountManager"
SpecAccountManager == InitAccountManager /\ [][NextAccountManager]_vars

\* The BotManager (with its ConfigManager) alone.
InitBotManager == Init /\ component = "BotManager"
SpecBotManager == InitBotManager /\ [][NextBotManager]_vars

\* The two keepers of run statistics: Scheduler and BotManager.
InitStats == Init /\ component \in {"Scheduler", "BotManager"} /\ ~last_call.on /\ AfterStart
NextStats == NextScheduler \/ NextBotManager
SpecStats == InitStats /\ [][NextStats]_vars

\* The TelegramAutoBot alone.
InitTelegramAutoBot == Init /\ component = "TelegramAutoBot"
SpecTelegramAutoBot == InitTelegramAutoBot /\ [][NextTelegramAutoBot]_vars

\* The next-fire-time functions, each on one input.
InitTriggerCalculator == Init /\ component = "TriggerCalculator"
SpecTriggerCalculator == InitTriggerCalculator /\ [][NextTriggerCalculator]_vars

\* The two registries a job can be removed from by id: Scheduler and
\* TelegramAutoBot.
InitRegistry ==
    Init /\ component \in {"Scheduler", "TelegramAutoBot"} /\ ~last_call.on /\ AfterStart
NextRegistry == NextScheduler \/ NextTelegramAutoBot
SpecRegistry == InitRegistry /\ [][NextRegistry]_vars

\* The two job runners: Scheduler and TaskManager.
InitJobs == Init /\ component \in {"Scheduler", "TaskManager"} /\ ~last_call.on /\ AfterStart
NextJobs == NextScheduler \/ NextTaskManager
SpecJobs == InitJobs /\ [][NextJobs]_vars

\* The two task stores: TelegramAutoBot.tasks and ConfigManager's config["tasks"].
InitStores == Init /\ component \in {"TelegramAutoBot", "BotManager"}
NextStores == NextTelegramAutoBot \/ NextBotManager
SpecStores == InitStores /\ [][NextStores]_vars

\* The two job runners with one TaskManager worker (max_concurrent 1): the
\* outcome of one attempt after the other.
InitOutcomes == InitJobs /\ max_concurrent = 1
SpecOutcomes == InitOutcomes /\ [][NextJobs]_vars

\* =================================================================== claims

\* Units of job j that were dispatched for its present record and have not
\* yet delivered their outcome.
Attempting(j) ==
    {u \in async_tasks : u.id = j /\ ~u.stale /\ u.stage \in {"created", "body"}}

\* Task objects with the id `id` whose executor is running.
ExecutingId(id) == {i \in ExecutingObjs : task_objs[i].task_id = id}

\* ----------------------------------------------------------------------- C1
\* C1: for every job id, at most one execution of the job's body is in flight
\* in every reachable state, in the Scheduler and in the TaskManager.
C1_OneExecutionPerJobId ==
    /\ \A j \in JobIds : Cardinality(BodyRunning(j)) <= 1
    /\ \A id \in TaskIds : Cardinality(ExecutingId(id)) <= 1

NewUnits(j) == {u \in async_tasks' \ async_tasks : u.id = j /\ u.stage = "created"}

C5_RunCountCountsEveryAttempt ==
    /\ \A o \in DOMAIN bot_objs : bot_objs[o].run_count = bot_objs[o].attempts
    /\ \A j \in JobIds :
          scheduled_tasks[j].run_count >= scheduled_tasks[j].error_count

\* ----------------------------------------------------------------------- C7
\* C7: while a batch_checkin over a list of accounts runs, at most K of its
\* external signin calls are in flight (K: the width of its semaphore).
C7_BatchCallsWithinLimit ==
    \A b \in BatchIds :
        batches[b].kind = "gather" =>
            Cardinality(CallsInFlight(b)) <= CheckinConcurrency

\* Witness of C7: K calls of a batch are in flight and a further account of the
\* batch waits for the semaphore.
C7_Witness ==
    \E b \in BatchIds :
        /\ batches[b].kind = "gather"
        /\ Cardinality(CallsInFlight(b)) = CheckinConcurrency
        /\ \E i \in DOMAIN batches[b].accts : batches[b].accts[i].st = "wait"

\* ----------------------------------------------------------------------- C8
\* C8: summed over every batch checkin and job under way, the number of
\* external signin calls in flight never exceeds the limiter's bound.
C8_AllCallsWithinLimit ==
    Cardinality(CallsInFlight("b1")) + Cardinality(CallsInFlight("b2"))
        <= CheckinConcurrency

\* ----------------------------------------------------------------------- C9
\* The accounts of batch b whose signin call succeeded.
Succeeded(b) == {i \in DOMAIN batches[b].accts : batches[b].accts[i].out = "ok"}

C11_RemovedJobNeverRunsAgain ==
    [][/\ \A j \in JobIds :
            /\ (SchedRemoveTask(j) /\ RemoveTaskReturns(j)) =>
                  /\ ~scheduled_tasks'[j].present
                  /\ {u \in async_tasks' : u.id = j} = {}
            /\ (SchedRemoveTask(j) /\ ~RemoveTaskReturns(j)) => UNCHANGED vars
            /\ ~scheduled_tasks[j].present =>
                  /\ NewUnits(j) = {}
                  /\ BodyRunning(j)' = {}
       /\ \A id \in 1..MaxTabTasks :
            TabRemoveTask(id) =>
                \A o \in DOMAIN tab_tasks : tab_tasks[o].id = id => ~tab_tasks'[o].listed
       /\ \A o \in DOMAIN tab_tasks :
            (tab_tasks[o].pc # "exec" /\ tab_tasks'[o].pc = "exec") => tab_tasks[o].listed
      ]_vars

\* ---------------------------------------------------------------------- C12
\* The _execute_task calls in flight on a task dict with the id `id`.
RunsOfId(id) == {r \in bot_runs : bot_objs[r.obj].id = id}

\* C12: removing or disabling a job while an execution of it is in flight
\* cancels that execution: when remove_task, disable_task or the delete
\* command has returned, no execution unit of that id is in flight.
C12_RemoveOrDisableCancelsExecution ==
    [][/\ \A j \in JobIds :
            ((SchedRemoveTask(j) \/ SchedDisableTask(j)) /\ scheduled_tasks[j].present)
                => InFlight(j)' = {}
       /\ \A id \in 1..MaxBotTasks :
            (BotDeleteTask(id) /\ GetTask(id) # 0) => RunsOfId(id)' = {}
      ]_vars

\* ---------------------------------------------------------------------- C13
\* C13: a run-now command for a task whose execution is in flight is rejected
\* or queued, so that no task ever has two executions of its body in flight.
C13_RunNowNeverDoublesExecution ==
    \A id \in 1..MaxBotTasks : Cardinality(RunsOfId(id)) <= 1

\* ---------------------------------------------------------------------- C14
\* C14: for every valid daily, interval or cron schedule and every instant,
\* the next fire time computed by utils.get_next_run_time and by
\* Scheduler._get_next_run_time is a time strictly after that instant.
C14_NextFireStrictlyAfterNow ==
    calc.by \in {"utils.get_next_run_time", "Scheduler._get_next_run_time"} =>
        /\ ~calc.result.none
        /\ calc.result.at > calc.at

\* ---------------------------------------------------------------------- C15
\* The instants of days 0..MaxDay+1 with the time of day h:m:00.
SlotsOf(h, m) == {At(d, h, m, 0) : d \in 0..(MaxDay + 1)}

\* C15: for a daily schedule the computed next fire time is the earliest
\* instant strictly after now whose time of day is the scheduled one: today's
\* slot while it lies ahead, tomorrow's once it has been reached or passed.
C15_DailyPicksEarliestSlotAfterNow ==
    (calc.by # "none" /\ calc.schedule.type = "daily") =>
        LET slots == SlotsOf(calc.schedule.hour, calc.schedule.minute)
        IN /\ ~calc.result.none
           /\ calc.result.at \in slots
           /\ calc.result.at > calc.at
           /\ \A x \in slots : x > calc.at => calc.result.at <= x

\* ---------------------------------------------------------------------- C16
\* C16: add_task with a malformed cron expression fails when it is called,
\* returning false and leaving scheduled_tasks and the running tasks as they
\* were; and no trigger error is left for run time: every job in
\* scheduled_tasks has a cron expression croniter can compute a next fire
\* time from.
C16_MalformedTriggerRejectedAtAdd ==
    /\ (last_call.op = "add_task" /\ ~last_call.valid) =>
          /\ ~last_call.ret
          /\ scheduled_tasks = last_call.tasks
          /\ async_tasks = last_call.units
    /\ \A j \in JobIds : scheduled_tasks[j].present => scheduled_tasks[j].cron_ok

\* Witness of C16: add_task with a malformed expression has just returned
\* false for an id whose job is registered and has a task in flight.
C16_Witness ==
    /\ last_call.op = "add_task" /\ ~last_call.valid /\ ~last_call.ret
    /\ scheduled_tasks[last_call.id].present
    /\ InFlight(last_call.id) # {}

\* ---------------------------------------------------------------------- C17
\* C17: add_task with an id that is already registered is rejected: it
\* returns false and the job's record (stats, enabled flag, next_run) and its
\* execution in flight are as they were before the call.
C17_DuplicateIdRejected ==
    (last_call.op = "add_task" /\ last_call.tasks[last_call.id].present) =>
        /\ ~last_call.ret
        /\ scheduled_tasks[last_call.id] = last_call.tasks[last_call.id]
        /\ async_tasks = last_call.units

\* ---------------------------------------------------------------------- C18
\* C18: enable_task on a registered job returns true and leaves the job
\* enabled with error_count 0, its other fields and every other job as they
\* were; enable_task and disable_task on an unknown id return false and
\* change nothing.
C18_EnableResetsErrorCount ==
    /\ (last_call.op = "enable_task" /\ last_call.tasks[last_call.id].present) =>
          /\ last_call.ret
          /\ scheduled_tasks[last_call.id].enabled
          /\ scheduled_tasks[last_call.id].error_count = 0
          /\ scheduled_tasks =
                [last_call.tasks EXCEPT ![last_call.id].enabled = TRUE,
                                        ![last_call.id].error_count = 0]
          /\ async_tasks = last_call.units
    /\ (last_call.op \in {"enable_task", "disable_task"}
           /\ ~last_call.tasks[last_call.id].present) =>
          /\ ~last_call.ret
          /\ scheduled_tasks = last_call.tasks
          /\ async_tasks = last_call.units

\* Witness of C18: enable_task has just returned true for a job that was
\* disabled with max_errors errors counted; it is enabled with none.
C18_Witness ==
    /\ last_call.op = "enable_task" /\ last_call.ret
    /\ ~last_call.tasks[last_call.id].enabled
    /\ last_call.tasks[last_call.id].error_count >= MaxErrors
    /\ scheduled_tasks[last_call.id].enabled
    /\ scheduled_tasks[last_call.id].error_count = 0

C20_FailureNeverHaltsScheduling ==
    /\ \A j \in JobIds :
          (IsDue(j) /\ ~TooManyErrors(j)) => ENABLED (SchedTick /\ NewUnits(j) # {})
    /\ tm_running => workers = max_concurrent

\* Witness of C20: one job has been disabled for its failures, and another
\* job has been submitted at the present time and is about to run.
C20_Witness ==
    \E a, b \in JobIds :
        /\ a # b
        /\ scheduled_tasks[a].present /\ ~scheduled_tasks[a].enabled
        /\ scheduled_tasks[a].error_count >= MaxErrors
        /\ scheduled_tasks[b].present
        /\ \E u \in async_tasks : u.id = b /\ u.stage = "created" /\ ~u.stale
        /\ scheduled_tasks[b].next_run = GetNextRunTime(b, now)

C22_FailureKeepsMessageAndBacksOff ==
    [][\A i \in DOMAIN task_objs :
          (/\ WorkerResume(i)
           /\ task_objs[i].res = "exc"
           /\ task_objs[i].retry_count + 1 < MaxRetries) =>
              /\ task_objs'[i].status = "pending"
              /\ task_objs'[i].retry_count = task_objs[i].retry_count + 1
              /\ task_objs'[i].delay = RetryDelay(task_objs'[i].retry_count)
              /\ task_objs'[i].error_message
      ]_vars

\* ---------------------------------------------------------------------- C23
\* C23: a job that exhausts its retries is disabled and one notification is
\* sent for the exhaustion; a failure before exhaustion sends no notification:
\* a failed run that leaves error_count below max_errors starts none.
C23_NoNotificationBeforeExhaustion ==
    [][\A u \in async_tasks :
          (/\ RunTaskException(u)
           /\ ~u.stale
           /\ scheduled_tasks[u.id].present
           /\ scheduled_tasks[u.id].error_count + 1 < MaxErrors) =>
              \A v \in async_tasks' : v.id = u.id => v.stage # "notify"
      ]_vars

\* ---------------------------------------------------------------------- C24
\* C24: a run that exceeds its deadline is handled like a run whose body
\* throws: from the same job state both go on the same way, to the same
\* notifications (both count the error with StatsOnFailure).
C24_TimeoutHandledLikeException ==
    \A u \in async_tasks :
        u.stage = "body" => StageAfterTimeout(u) = StageAfterException(u)

\* ---------------------------------------------------------------------- C25
\* The status changes of C25, with FAILED for DISABLED and with COMPLETED as
\* the end of a task that ran once: PENDING -> RUNNING -> {PENDING, FAILED,
\* CANCELLED, COMPLETED}, and cancel_task's change of any status to CANCELLED.
StatusMoves ==
    {<<"pending", "running">>, <<"running", "pending">>,
     <<"running", "failed">>, <<"running", "cancelled">>,
     <<"running", "completed">>,
     <<"pending", "cancelled">>, <<"failed", "cancelled">>,
     <<"completed", "cancelled">>}

\* C25: a job moves only along PENDING -> RUNNING -> {PENDING, DISABLED,
\* CANCELLED}, and a DISABLED or CANCELLED job is never PENDING or RUNNING
\* again without an explicit operation that enables it (retry_failed_tasks) or
\* adds it again (add_task, which builds a new Task).
C25_StatusMovesAlongStateMachine ==
    [][\A i \in DOMAIN task_objs :
          /\ task_objs'[i].status # task_objs[i].status =>
                \/ <<task_objs[i].status, task_objs'[i].status>> \in StatusMoves
                \/ TMRetryFailedTasks
          /\ (task_objs[i].status \in {"failed", "cancelled"} /\ ~TMRetryFailedTasks) =>
                task_objs'[i].status \notin {"pending", "running"}
      ]_vars

\* ---------------------------------------------------------------------- C26
\* C26: a failure of the notifier while a job's outcome is reported does not
\* reach the engine's state: the job's counters, enabled flag and next_run
\* are what they would be had the notification been sent (the records as
\* they were before it), and the run ends, so its job can be dispatched again.
C26_NotifierFailureLeavesEngineState ==
    (last_call.op = "send_error_notification" /\ ~last_call.ret) =>
        /\ scheduled_tasks = last_call.tasks
        /\ \E u \in last_call.units :
              /\ u.id = last_call.id /\ u.stage = "notify"
              /\ async_tasks = (last_call.units \ {u}) \cup {[u EXCEPT !.stage = "done"]}

\* Witness of C26: the notification about a failed run of a registered job
\* has itself failed.
C26_Witness ==
    /\ last_call.op = "send_error_notification" /\ ~last_call.ret
    /\ last_call.tasks[last_call.id].present
    /\ last_call.tasks[last_call.id].error_count >= 1
    /\ \E u \in async_tasks : u.id = last_call.id /\ u.stage = "done" /\ ~u.stale

\* ---------------------------------------------------------------------- C27
\* C27: when saving the job state fails, the caller of the mutating operation
\* is told so (the operation does not report success), while the registry in
\* memory keeps the mutation and can be used further.
C27_SaveFailureSurfacedToCaller ==
    (config_call.op # "none" /\ ~config_call.saved) => ~config_call.ret

\* ---------------------------------------------------------------------- C28
\* C28: a tick never waits for a job body: whatever runs of jobs are under
\* way, and for however long, the next tick can take place.
C28_TickNeverWaitsForBodies ==
    component = "Scheduler" => ENABLED SchedTick

\* Witness of C28: while the body of one job is still running past the job's
\* next fire time, a tick at the current time has dispatched another job.
C28_Witness ==
    \E a, b \in JobIds :
        /\ a # b
        /\ \E u \in async_tasks :
              u.id = a /\ u.stage = "body" /\ u.tracked /\ ~u.stale
        /\ scheduled_tasks[a].present /\ scheduled_tasks[a].next_run <= now
        /\ \E v \in async_tasks :
              v.id = b /\ v.stage = "created" /\ v.tracked /\ ~v.stale
        /\ scheduled_tasks[b].present /\ scheduled_tasks[b].next_run > now

\* ---------------------------------------------------------------------- C29
\* C29: when a run in flight is cancelled (by remove_task, by disable_task or
\* by the timeout), the job's statistics are updated as a whole or not at all:
\* in no reachable state has a record a last_run without a counted run or a
\* counted run without last_run, and disable_task, which cancels the run,
\* leaves last_run, run_count and error_count of its job as they were.
C29_StatsUpdatedWhollyOrNotAtAll ==
    /\ \A j \in JobIds :
          scheduled_tasks[j].last_run <=> scheduled_tasks[j].run_count >= 1
    /\ (last_call.op = "disable_task" /\ last_call.tasks[last_call.id].present) =>
          scheduled_tasks[last_call.id] =
              [last_call.tasks[last_call.id] EXCEPT !.enabled = FALSE]
    /\ (last_call.op = "remove_task" /\ last_call.tasks[last_call.id].present) =>
          /\ ~scheduled_tasks[last_call.id].present
          /\ \A j \in JobIds \ {last_call.id} :
                scheduled_tasks[j] = last_call.tasks[j]

\* Witness of C29: disable_task has cancelled the run of a job whose callback
\* was being awaited, after the job had run with success and failed since.
C29_Witness ==
    /\ last_call.op = "disable_task"
    /\ \E u \in last_call.units :
          /\ u.id = last_call.id /\ u.stage = "body" /\ u.tracked /\ ~u.stale
          /\ u \notin async_tasks
    /\ scheduled_tasks[last_call.id].run_count >= 1
    /\ scheduled_tasks[last_call.id].error_count >= 1
    /\ scheduled_tasks[last_call.id].last_run

\* ---------------------------------------------------------------------- C30
\* C30: the next_run of a registered job is changed only by the scheduler loop
\* in the tick that dispatches the job (the Scheduler has no retry policy that
\* could set it); enable_task, disable_task, the end of a run and the update
\* of the statistics leave it as it is.
C30_NextRunChangedOnlyByDispatch ==
    [][\A j \in JobIds :
          (/\ scheduled_tasks[j].present
           /\ scheduled_tasks'[j].present
           /\ scheduled_tasks'[j].next_run # scheduled_tasks[j].next_run) =>
              (SchedTick /\ j \in Dispatched)
      ]_vars

\* ---------------------------------------------------------------------- C31
\* C31: a failed task that waits out its backoff delay holds no worker: while
\* fewer tasks are being executed than there are workers, a worker is free to
\* take the next queued task, however many tasks are in their backoff wait.
C31_BackoffHoldsNoWorker ==
    (/\ tm_running
     /\ \E i \in DOMAIN task_objs : task_objs[i].pc = "backoff"
     /\ Cardinality({i \in DOMAIN task_objs :
                        task_objs[i].pc \in {"await", "resume"}}) < workers)
        => IdleWorker

\* ---------------------------------------------------------------------- C32
\* C32: once cancel_task has returned True for a task, the task's status stays
\* CANCELLED and its body is not started again, whatever the worker that
\* holds the task was doing at the time of the call.
C32_CancelledTaskStaysCancelled ==
    [][\A i \in DOMAIN task_objs :
          task_objs[i].status = "cancelled" =>
              /\ task_objs'[i].status = "cancelled"
              /\ task_objs'[i].attempts = task_objs[i].attempts
      ]_vars

\* Indexes of the Task objects in the queue.
QueuedObjs == {task_queue[k] : k \in DOMAIN task_queue}

\* ---------------------------------------------------------------------- C33
\* C33: a task added with a scheduled_time in the future is not executed
\* before that time and is executed once it has passed.  Workers take tasks
\* from the queue only, so the task must be within their reach: a stored
\* task that is pending and in no worker's hands is in the queue.
C33_ScheduledTaskWithinReachOfWorkers ==
    \A i \in StoredObjs :
        (task_objs[i].status = "pending" /\ task_objs[i].pc = "none") =>
            i \in QueuedObjs

\* A job the claim C34 speaks of: enabled, its next_run reached, error_count
\* below max_errors, no execution of it in flight.
ReadyToRun(j) ==
    /\ scheduled_tasks[j].present
    /\ scheduled_tasks[j].enabled
    /\ now >= scheduled_tasks[j].next_run
    /\ scheduled_tasks[j].error_count < MaxErrors
    /\ InFlight(j) = {}

\* ---------------------------------------------------------------------- C34
\* C34: an enabled job that is due, has fewer than max_errors errors and no
\* execution in flight is dispatched within two ticks: a tick either creates
\* its task, or (a finished task of the job was still in the running set)
\* leaves the job as it is and the running set without its id, so that the
\* following tick finds it due and dispatches it.
C34_DueJobDispatchedWithinTwoTicks ==
    [][SchedTick =>
          \A j \in JobIds :
              ReadyToRun(j) =>
                  \/ /\ j \in Dispatched
                     /\ \E u \in async_tasks' :
                           u.id = j /\ u.stage = "created" /\ u.tracked /\ ~u.stale
                  \/ /\ j \in RunningIds
                     /\ j \notin RunningIds'
                     /\ ReadyToRun(j)'
      ]_vars

\* Witness of C34: a job is due again while the finished task of its last run
\* is still in the running set.
C34_Witness ==
    \E j \in JobIds :
        /\ ReadyToRun(j)
        /\ j \in RunningIds
        /\ \E u \in async_tasks : u.id = j /\ u.stage = "done" /\ u.tracked /\ ~u.stale

\* ---------------------------------------------------------------------- C35
\* C35: in every reachable state every task has retry_count <= max_retries,
\* whatever the order of worker failures and retry_failed_tasks calls; and the
\* body of a task has been started at most once more than it was given a
\* retry, hence at most 1 + max_retries times.
C35_RetryCountWithinMaxRetries ==
    \A i \in DOMAIN task_objs :
        /\ task_objs[i].retry_count <= MaxRetries
        /\ task_objs[i].attempts <= task_objs[i].retry_count + 1

\* Witness of C35: a task has used all its retries and its last attempt, the
\* one after the retry number max_retries, succeeded.
C35_Witness ==
    \E i \in DOMAIN task_objs :
        /\ task_objs[i].retry_count = MaxRetries
        /\ task_objs[i].attempts = MaxRetries + 1
        /\ task_objs[i].status = "completed"

C37_StoredTaskIdsUnique ==
    /\ \A o, q \in ListedTasks : tab_tasks[o].id = tab_tasks[q].id => o = q
    /\ \A o, q \in ConfigTasks : bot_objs[o].id = bot_objs[q].id => o = q

\* ---------------------------------------------------------------------- C38
\* C38: the executions of an enabled daily task driven by schedule_task fall
\* on consecutive days at the configured time: the execution after the one
\* of day D is that of day D + 1 at the task's hour and minute.
C38_DailyExecutionsOnConsecutiveDays ==
    calc.by = "TelegramAutoBot.schedule_task loop" =>
        calc.next.at = At((calc.executed.at \div 86400) + 1,
                          calc.schedule.hour, calc.schedule.minute, 0)

\* ---------------------------------------------------------------------- C39
\* A stop() call has returned, no stop() call is in progress, and start() has
\* not been called since the last stop() call was made.
Stopped == lifecycle.stop_returned /\ ~lifecycle.is_running /\ lifecycle.stop = "idle"

\* C39: once stop() has returned, and until start() is called, the Scheduler
\* is at rest: no _run_task task is unfinished, running_tasks is empty, no
\* loop is alive and no step creates a _run_task task; and start() never
\* makes a second loop: at most one _scheduler_loop task is alive.
C39_StoppedSchedulerAtRest ==
    [][/\ lifecycle'.loops <= 1
       /\ Stopped' =>
            /\ lifecycle'.loops = 0
            /\ RunningIds' = {}
            /\ \A u \in async_tasks' : u.stage = "done"
       /\ (Stopped /\ Stopped') => async_tasks' \subseteq async_tasks]_vars

====
